---- MODULE Spec2Model ----
(***************************************************************************)
(* Model of the Monte Carlo Tree Search engine of mcts/src/lib.rs: the     *)
(* arena tree, select / expand / simulate / backpropagate and the          *)
(* time-bounded loop of Mcts::mcts, run over a small table of games that   *)
(* implement the Mcts trait.                                               *)
(***************************************************************************)
EXTENDS Integers, Sequences, FiniteSets, TLC

\* Largest number of loop iterations the clock lets one decision run.
MaxRounds == 9

\* The threshold of a test written >= for >.
ThresholdOneLess == 3 - 1

\* const THRESHOLD: u32 = 3
THRESHOLD == 3

\* Option::None, for Option<Player> and Option<Turn>.
None == "None"

\* What Option::unwrap on None yields inside simulate().
Unwrapped == "unwrap"

(***************************************************************************)
(* The games: implementations of the Mcts trait, as a table.  Each state   *)
(* has the player to move, the ordered legal turns with the state each     *)
(* leads to, whether the game is over, and the winner.                     *)
(***************************************************************************)
End(p, w) == [player |-> p, turns |-> <<>>, over |-> TRUE, winner |-> w]

Mid(p, ts) == [player |-> p, turns |-> ts, over |-> FALSE, winner |-> None]

To(t, s) == [turn |-> t, to |-> s]

Games ==
  [ e1   |-> End("P1", "P1"),
    e1b  |-> End("P2", "P1"),
    e2   |-> End("P1", "P2"),
    e0   |-> End("P1", None),
    win  |-> Mid("P2", <<To("a", "e1"), To("b", "e1b")>>),
    lose |-> Mid("P2", <<To("a", "e2")>>),
    mix  |-> Mid("P2", <<To("a", "e1"), To("b", "e2"), To("c", "e0")>>),
    one  |-> Mid("P1", <<To("a", "mix")>>),
    AXY  |-> Mid("P1", <<To("X", "win"), To("Y", "lose")>>),
    AYX  |-> Mid("P1", <<To("Y", "lose"), To("X", "win")>>),
    four |-> Mid("P1", <<To("a", "mix"), To("b", "win"),
                         To("c", "lose"), To("d", "e0")>>),
    chain |-> Mid("P1", <<To("a", "one"), To("b", "e2")>>),
    edge |-> Mid("P2", <<To("a", "e1b"), To("b", "mix")>>),
    stuck |-> Mid("P2", <<>>),
    pass |-> Mid("P1", <<To("a", "stuck"), To("b", "e1")>>),
    deep |-> Mid("P2", <<To("a", "four"), To("b", "chain"), To("c", "pass")>>) ]

\* The states mcts() is called on.
Inputs == {"AXY", "AYX", "four", "chain", "edge", "one", "e1", "e0"}

\* fn player(&self) -> Self::Player
Player(state) == Games[state].player

\* fn turns(&self) -> Vec<Self::Turn>
Turns(state) == [i \in 1..Len(Games[state].turns) |-> Games[state].turns[i].turn]

\* fn play(&mut self, turn: Self::Turn)
Play(state, turn) ==
  (CHOOSE t \in {Games[state].turns[i] : i \in 1..Len(Games[state].turns)} :
     t.turn = turn).to

\* fn over(&self) -> bool
Over(state) == Games[state].over

\* fn winner(&self) -> Option<Self::Player>
Winner(state) == Games[state].winner

(***************************************************************************)
(* f64 initiative.  A value is +infinity, NaN, or a finite number kept in  *)
(* units of 1/Unit; Unit is a multiple of every sims value the bounds      *)
(* allow (1..10), so wins / sims is exact.  For sims <= 10 and round <= 10 *)
(* two scaled values compare with > exactly as the two f64 values do.      *)
(***************************************************************************)
Unit == 18 * 2520

INFINITY == [k |-> "inf", v |-> 0]

NaN == [k |-> "nan", v |-> 0]

Num(v) == [k |-> "num", v |-> v]

\* floor(Unit^2 * log10(round)) for round = 1, 2, ...
Log10Scaled ==
  <<0, 619378126, 981691104, 1238756253, 1438151473, 1601069230,
    1738814232, 1858134379, 1963382208, 2057529600, 2142696274>>

RECURSIVE SqrtSearch(_, _, _)
SqrtSearch(n, lo, hi) ==
  IF lo = hi THEN lo
  ELSE LET mid == (lo + hi + 1) \div 2
       IN  IF mid * mid <= n THEN SqrtSearch(n, mid, hi)
           ELSE SqrtSearch(n, lo, mid - 1)

\* f64::sqrt, on the scaled integers: floor of the square root.
ISqrt(n) == SqrtSearch(n, 0, 23170)

\* a > b on f64: false when either side is NaN.
Gt(a, b) ==
  /\ a.k # "nan"
  /\ b.k # "nan"
  /\ \/ a.k = "inf" /\ b.k = "num"
     \/ a.k = "num" /\ b.k = "num" /\ a.v > b.v

(***************************************************************************)
(* Node and Tree.  Indices are the code's (0-based); the arena is a        *)
(* sequence, so node idx is stored at position idx + 1.                    *)
(***************************************************************************)
\* A node created with initiative 0 for +infinity.
NewNodeZeroInitiative(idx, parent, state, action) ==
  [ idx |-> idx, parent |-> parent, children |-> <<>>,
    state |-> state, action |-> action,
    wins |-> 0, sims |-> 0, initiative |-> Num(0) ]

\* Node::new
NewNode(idx, parent, state, action) ==
  [ idx |-> idx, parent |-> parent, children |-> <<>>,
    state |-> state, action |-> action,
    wins |-> 0, sims |-> 0, initiative |-> INFINITY ]

\* Tree::new: the arena holds the root alone; tree.root = 0.
root == 0

NewTree(state) == <<NewNode(0, 0, state, None)>>

\* Tree::borrow_node
Node(a, idx) == a[idx + 1]

\* Node::update_initiative: wins/sims + EXPLORE * sqrt(log10(round) / sims).
\* log10(0) is -inf, sqrt of it NaN.  EXPLORE = 0.5: sqrt(x / (4 * sims)).
UpdateInitiative(node, round) ==
  [node EXCEPT !.initiative =
     IF round = 0 THEN NaN
     ELSE Num(node.wins * (Unit \div node.sims)
              + ISqrt(Log10Scaled[round] \div (4 * node.sims)))]

\* The inner for loop of select(): the iterator is over `kids`, fixed when
\* the loop starts; `node` is replaced by each child of greater initiative.
RECURSIVE ScanChildren(_, _, _, _)
ScanChildren(a, kids, i, node) ==
  IF i > Len(kids) THEN node
  ELSE ScanChildren(a, kids, i + 1,
         IF Gt(Node(a, kids[i]).initiative, Node(a, node).initiative)
         THEN kids[i] ELSE node)

\* A descent of one level only: the first child, whatever hangs from it.
DescendOneLevel(a, node) ==
  IF Node(a, node).children = <<>> THEN Node(a, node).idx
  ELSE Node(a, node).children[1]

\* The while loop of select(): node becomes its first child, and the for
\* loop then runs over the children of that first child.
RECURSIVE Descend(_, _)
Descend(a, node) ==
  IF Node(a, node).children = <<>> THEN Node(a, node).idx
  ELSE LET first == Node(a, node).children[1]
       IN  Descend(a, ScanChildren(a, Node(a, first).children, 1, first))

\* The number of iterations the while loop of select() makes from `node`.
RECURSIVE DescendSteps(_, _)
DescendSteps(a, node) ==
  IF Node(a, node).children = <<>> THEN 0
  ELSE LET first == Node(a, node).children[1]
       IN  1 + DescendSteps(a, ScanChildren(a, Node(a, first).children, 1, first))

\* Tree::select
SelectLeaf(a) == Descend(a, root)

\* Expansion that gives the new nodes tree.root as parent, not idx.
RECURSIVE ExpandFromUnderRoot(_, _, _)
ExpandFromUnderRoot(a, idx, i) ==
  LET ts == Turns(Node(a, idx).state)
  IN  IF i > Len(ts) THEN a
      ELSE LET child  == NewNode(Len(a), root, Play(Node(a, idx).state, ts[i]), ts[i])
               pushed == Append(a, child)
               linked == [pushed EXCEPT ![idx + 1].children =
                            Append(@, pushed[Len(pushed)].idx)]
           IN  ExpandFromUnderRoot(linked, idx, i + 1)

\* Expansion that puts each new child at the front of the parent's list.
RECURSIVE ExpandFromPrepend(_, _, _)
ExpandFromPrepend(a, idx, i) ==
  LET ts == Turns(Node(a, idx).state)
  IN  IF i > Len(ts) THEN a
      ELSE LET child  == NewNode(Len(a), idx, Play(Node(a, idx).state, ts[i]), ts[i])
               pushed == Append(a, child)
               linked == [pushed EXCEPT ![idx + 1].children =
                            <<pushed[Len(pushed)].idx>> \o @]
           IN  ExpandFromPrepend(linked, idx, i + 1)

\* Tree::expand, from the i-th turn of the node's state on.
RECURSIVE ExpandFrom(_, _, _)
ExpandFrom(a, idx, i) ==
  LET ts == Turns(Node(a, idx).state)
  IN  IF i > Len(ts) THEN a
      ELSE LET child  == NewNode(Len(a), idx, Play(Node(a, idx).state, ts[i]), ts[i])
               pushed == Append(a, child)
               linked == [pushed EXCEPT ![idx + 1].children =
                            Append(@, pushed[Len(pushed)].idx)]
           IN  ExpandFrom(linked, idx, i + 1)

\* Expansion that plays the last turn on the node's own state, not on a
\* clone of it.
ExpandNoClone(a, idx) ==
  LET e == ExpandFrom(a, idx, 1)
  IN  IF Len(e) = Len(a) THEN e
      ELSE [e EXCEPT ![idx + 1].state = e[Len(e)].state]

\* Expansion run twice over on the same node.
ExpandTwice(a, idx) == ExpandFrom(ExpandFrom(a, idx, 1), idx, 1)

\* Tree::expand
Expand(a, idx) == ExpandFrom(a, idx, 1)

\* Backpropagation that updates the leaf alone and never ascends.
BackpropLeafOnly(a, idx, winner, round) ==
  IF idx = 0 THEN a
  ELSE LET node    == Node(a, idx)
           counted == [node EXCEPT
                         !.wins = IF Player(node.state) = winner THEN @ + 1 ELSE @,
                         !.sims = @ + 1]
       IN  [a EXCEPT ![idx + 1] = UpdateInitiative(counted, round)]

\* Backpropagation with the two counters swapped: wins counts every visit.
RECURSIVE BackpropSwapped(_, _, _, _)
BackpropSwapped(a, idx, winner, round) ==
  IF idx = 0 THEN a
  ELSE LET node    == Node(a, idx)
           counted == [node EXCEPT
                         !.sims = IF Player(node.state) = winner THEN @ + 1 ELSE @,
                         !.wins = @ + 1]
       IN  BackpropSwapped([a EXCEPT ![idx + 1].wins = counted.wins,
                                     ![idx + 1].sims = counted.sims],
                           node.parent, winner, round)

\* Backpropagation that tests for the root after the update, not before.
RECURSIVE BackpropThroughRoot(_, _, _, _)
BackpropThroughRoot(a, idx, winner, round) ==
  LET node    == Node(a, idx)
      counted == [node EXCEPT
                    !.wins = IF Player(node.state) = winner THEN @ + 1 ELSE @,
                    !.sims = @ + 1]
      updated == [a EXCEPT ![idx + 1] = UpdateInitiative(counted, round)]
  IN  IF idx = 0 THEN updated
      ELSE BackpropThroughRoot(updated, node.parent, winner, round)

\* Backpropagation that credits the side that moved into the node (the
\* player of the parent's state), the root child by the root's player.
RECURSIVE BackpropCreditMover(_, _, _, _)
BackpropCreditMover(a, idx, winner, round) ==
  IF idx = 0 THEN a
  ELSE LET node    == Node(a, idx)
           counted == [node EXCEPT
                         !.wins = IF Player(Node(a, node.parent).state) = winner
                                  THEN @ + 1 ELSE @,
                         !.sims = @ + 1]
       IN  BackpropCreditMover(
             [a EXCEPT ![idx + 1] = UpdateInitiative(counted, round)],
             node.parent, winner, round)

\* Tree::backpropagate
RECURSIVE Backprop(_, _, _, _)
Backprop(a, idx, winner, round) ==
  IF idx = 0 THEN a
  ELSE LET node    == Node(a, idx)
           counted == [node EXCEPT
                         !.wins = IF Player(node.state) = winner THEN @ + 1 ELSE @,
                         !.sims = @ + 1]
       IN  Backprop([a EXCEPT ![idx + 1] = UpdateInitiative(counted, round)],
                    node.parent, winner, round)

\* Node::simulate: the values a random playout from `state` can return;
\* Unwrapped when a state that is not over offers no turn.
RECURSIVE Simulate(_)
Simulate(state) ==
  IF Over(state) THEN {Winner(state)}
  ELSE IF Turns(state) = <<>> THEN {Unwrapped}
  ELSE UNION {Simulate(Play(state, Turns(state)[i])) : i \in 1..Len(Turns(state))}

\* The "find most simulated node" loop of mcts(), from the i-th root child.
RECURSIVE MostSimulated(_, _, _)
MostSimulated(a, i, best) ==
  LET kids == Node(a, root).children
  IN  IF i > Len(kids) THEN best
      ELSE MostSimulated(a, i + 1,
             IF Node(a, kids[i]).sims > Node(a, best).sims THEN kids[i] ELSE best)

\* The same loop with >= for >: the last of the most simulated children.
RECURSIVE LastMostSimulated(_, _, _)
LastMostSimulated(a, i, best) ==
  LET kids == Node(a, root).children
  IN  IF i > Len(kids) THEN best
      ELSE LastMostSimulated(a, i + 1,
             IF Node(a, kids[i]).sims >= Node(a, best).sims THEN kids[i] ELSE best)

FindBestLast(a) == LastMostSimulated(a, 1, Node(a, root).children[1])

\* The search for the most simulated child started from the root itself.
FindBestFromRoot(a) == MostSimulated(a, 1, root)

\* let mut best = root.children[0]; for child in root.children.iter() ...
FindBest(a) == MostSimulated(a, 1, Node(a, root).children[1])

\* mcts() without the early return.
NeverOnlyOneTurn(a) == FALSE

\* if tree.borrow_node(tree.root).children.len() == 1
OnlyOneTurn(a) == Len(Node(a, root).children) = 1

(***************************************************************************)
(* Reversi (src/lib.rs).  A board is [squares, player]; squares[x][y] is   *)
(* "Empty" or the player whose piece is on Position(x, y).  Board is       *)
(* generic in BOARDSIZE; the model instantiates it on a small board.       *)
(***************************************************************************)
\* const BOARDSIZE (8 in the source).
BOARDSIZE == 4

Black == "Black"

White == "White"

Empty == "Empty"

Coords == 0..(BOARDSIZE - 1)

\* Player::opponent
OpponentOf(player) == IF player = Black THEN White ELSE Black

\* Turn::new
NewTurn(player, pos) == [player |-> player, pos |-> pos]

\* Board::new: four pieces in the centre, Black moves first.
NewBoard ==
  [ squares |->
      [x \in Coords |-> [y \in Coords |->
         IF (x = BOARDSIZE \div 2 - 1 /\ y = BOARDSIZE \div 2 - 1)
            \/ (x = BOARDSIZE \div 2 /\ y = BOARDSIZE \div 2) THEN White
         ELSE IF (x = BOARDSIZE \div 2 - 1 /\ y = BOARDSIZE \div 2)
                 \/ (x = BOARDSIZE \div 2 /\ y = BOARDSIZE \div 2 - 1) THEN Black
         ELSE Empty]],
    player |-> Black ]

\* Board::get: None for a position off the board.  A negative isize cast
\* to usize is far off the board.
Get(b, pos) ==
  IF pos[1] \in Coords /\ pos[2] \in Coords THEN b.squares[pos[1]][pos[2]]
  ELSE None

\* Board::in_bounds
InBounds(b, pos) == Get(b, pos) # None

\* Board::is_occupied (Square::occupied)
IsOccupied(b, pos) == b.squares[pos[1]][pos[2]] # Empty

\* for i in [-1, 0, 1] { for j in [-1, 0, 1] { ... } }
Directions ==
  << <<-1, -1>>, <<-1, 0>>, <<-1, 1>>,
     << 0, -1>>, << 0, 0>>, << 0, 1>>,
     << 1, -1>>, << 1, 0>>, << 1, 1>> >>

\* The square i steps from pos in direction d.
Step(pos, d, i) == <<pos[1] + i * d[1], pos[2] + i * d[2]>>

\* is_legal_in_direction: for i in 2..BOARDSIZE { match self.get(..) {
\*   Some(Piece(player)) if player == turn.player => return true,
\*   Some(_) => continue, None => return false } } false
RECURSIVE SearchDelimiter(_, _, _, _)
SearchDelimiter(b, turn, d, i) ==
  IF i >= BOARDSIZE THEN FALSE
  ELSE LET sq == Get(b, Step(turn.pos, d, i))
       IN  IF sq = turn.player THEN TRUE
           ELSE IF sq # None THEN SearchDelimiter(b, turn, d, i + 1)
                ELSE FALSE

\* Board::is_legal_in_direction
IsLegalInDirection(b, turn, d) ==
  IF Get(b, Step(turn.pos, d, 1)) # OpponentOf(turn.player) THEN FALSE
  ELSE SearchDelimiter(b, turn, d, 2)

\* Board::is_legal
IsLegal(b, turn) ==
  IF ~InBounds(b, turn.pos) THEN FALSE
  ELSE IF IsOccupied(b, turn.pos) THEN FALSE
  ELSE \E k \in 1..Len(Directions) : IsLegalInDirection(b, turn, Directions[k])

\* for i in 0..BOARDSIZE { for j in 0..BOARDSIZE { Position(j, i) } }
ScanOrder ==
  [k \in 1..(BOARDSIZE * BOARDSIZE) |->
     <<(k - 1) % BOARDSIZE, (k - 1) \div BOARDSIZE>>]

\* Board::turns
BoardTurns(b) ==
  SelectSeq([k \in 1..Len(ScanOrder) |-> NewTurn(b.player, ScanOrder[k])],
            LAMBDA t : IsLegal(b, t))

\* Board::has_turn
HasTurn(b, player) ==
  \E k \in 1..Len(ScanOrder) : IsLegal(b, NewTurn(player, ScanOrder[k]))

\* The flip loop of set_turn in one direction: for i in 1..BOARDSIZE, flip
\* the opponent's pieces, break at anything else.  It runs only in a
\* direction is_legal_in_direction accepts, where a piece of turn.player
\* on the board stops it before self[pos] leaves the board.
RECURSIVE Flip(_, _, _, _)
Flip(b, turn, d, i) ==
  IF i >= BOARDSIZE THEN b
  ELSE LET pos == Step(turn.pos, d, i)
       IN  IF Get(b, pos) = OpponentOf(turn.player)
           THEN Flip([b EXCEPT !.squares[pos[1]][pos[2]] = turn.player],
                     turn, d, i + 1)
           ELSE b

\* The direction loops of set_turn, from the k-th direction on.
RECURSIVE FlipDirections(_, _, _)
FlipDirections(b, turn, k) ==
  IF k > Len(Directions) THEN b
  ELSE FlipDirections(
         IF IsLegalInDirection(b, turn, Directions[k])
         THEN Flip(b, turn, Directions[k], 1) ELSE b,
         turn, k + 1)

\* set_turn that flips but never puts the piece on turn.pos.
SetTurnNoPiece(b, turn) ==
  IF ~IsLegal(b, turn) THEN [board |-> b, ok |-> FALSE]
  ELSE [board |-> FlipDirections([b EXCEPT !.player = turn.player], turn, 1),
        ok |-> TRUE]

\* Board::set_turn: the board after it and the value it returns.
SetTurn(b, turn) ==
  IF ~IsLegal(b, turn) THEN [board |-> b, ok |-> FALSE]
  ELSE [board |-> FlipDirections(
                    [b EXCEPT !.player = turn.player,
                              !.squares[turn.pos[1]][turn.pos[2]] = turn.player],
                    turn, 1),
        ok |-> TRUE]

\* play that hands the move to the opponent after every successful turn.
BoardPlayAlwaysSwitch(b, turn) ==
  LET set == SetTurn(b, turn)
  IN  IF set.ok
      THEN [board |-> [set.board EXCEPT !.player = OpponentOf(@)], ok |-> TRUE]
      ELSE set

\* Board::play: the board after it and the value it returns.
BoardPlay(b, turn) ==
  LET set == SetTurn(b, turn)
  IN  IF set.ok /\ HasTurn(set.board, OpponentOf(set.board.player))
      THEN [board |-> [set.board EXCEPT !.player = OpponentOf(@)], ok |-> TRUE]
      ELSE set

\* Board::over
BoardOver(b) == ~HasTurn(b, b.player) /\ ~HasTurn(b, OpponentOf(b.player))

\* The pieces of `player` on the board.
Pieces(b, player) ==
  {pos \in Coords \X Coords : b.squares[pos[1]][pos[2]] = player}

\* Board::winner
BoardWinner(b) ==
  IF ~BoardOver(b) THEN None
  ELSE LET count == Cardinality(Pieces(b, Black)) - Cardinality(Pieces(b, White))
       IN  IF count < 0 THEN White
           ELSE IF count = 0 THEN None
           ELSE Black

(***************************************************************************)
(* The state of one mcts() call.                                           *)
(***************************************************************************)
VARIABLES
  game,      \* self: the state mcts() is called on
  arena,     \* tree.arena
  round,     \* let mut round = 0
  leaf,      \* let mut leaf
  winner,    \* let winner
  pc,        \* position in mcts()
  result,    \* the turn mcts() returns
  panic,     \* the panic that ended mcts(), if any
  rollouts,  \* number of simulate() calls made so far
  board,     \* a Reversi game: Reversi.board
  plays,     \* number of play() calls on board that returned true
  playout,   \* simulate(): let mut state = self.state.clone()
  applied    \* simulate(): the turns played so far, each with the state
             \* it was played on

vars ==
  <<game, arena, round, leaf, winner, pc, result, panic, rollouts,
    board, plays, playout, applied>>

\* The Reversi game, which a decision over the table of games leaves alone.
reversi == <<board, plays>>

\* One simulate() call taken step by step, which the others leave alone.
rollout == <<playout, applied>>

\* The variables of a decision, which a Reversi game leaves alone.
decision == <<game, arena, round, leaf, winner, pc, result, panic, rollouts>>

Init ==
  /\ game \in Inputs
  /\ arena = NewTree(game)
  /\ round = 0
  /\ leaf = root
  /\ winner = None
  /\ pc = "expand_root"
  /\ result = None
  /\ panic = None
  /\ rollouts = 0
  /\ board = NewBoard
  /\ plays = 0
  /\ playout = game
  /\ applied = <<>>

\* tree.expand(tree.root), and the test for a single valid turn.
ExpandRoot ==
  /\ pc = "expand_root"
  /\ arena' = Expand(arena, root)
  /\ pc' = IF OnlyOneTurn(arena') THEN "only" ELSE "loop"
  /\ UNCHANGED <<reversi, rollout>>
  /\ UNCHANGED <<game, round, leaf, winner, result, panic, rollouts>>

\* return tree.borrow_node(root.children[0]).action.clone().unwrap()
ReturnOnly ==
  /\ pc = "only"
  /\ result' = Node(arena, Node(arena, root).children[1]).action
  /\ pc' = "done"
  /\ UNCHANGED <<reversi, rollout>>
  /\ UNCHANGED <<game, arena, round, leaf, winner, panic, rollouts>>

\* The clock has not run out: let mut leaf = tree.select().
Select ==
  /\ pc = "loop"
  /\ round < MaxRounds
  /\ leaf' = SelectLeaf(arena)
  /\ pc' = "selected"
  /\ UNCHANGED <<reversi, rollout>>
  /\ UNCHANGED <<game, arena, round, winner, result, panic, rollouts>>

\* sims > THRESHOLD: expand the leaf and move to a random child, if any.
ExpandLeaf ==
  /\ pc = "selected"
  /\ Node(arena, leaf).sims > THRESHOLD
  /\ arena' = Expand(arena, leaf)
  /\ LET kids == Node(arena', leaf).children
     IN  IF kids = <<>> THEN leaf' = leaf
         ELSE \E i \in 1..Len(kids) : leaf' = kids[i]
  /\ pc' = "simulate"
  /\ UNCHANGED <<reversi, rollout>>
  /\ UNCHANGED <<game, round, winner, result, panic, rollouts>>

\* sims <= THRESHOLD: the leaf is simulated as it is.
KeepLeaf ==
  /\ pc = "selected"
  /\ ~(Node(arena, leaf).sims > THRESHOLD)
  /\ pc' = "simulate"
  /\ UNCHANGED <<reversi, rollout>>
  /\ UNCHANGED <<game, arena, round, leaf, winner, result, panic, rollouts>>

\* let winner = tree.borrow_node(leaf).simulate()
SimulateLeaf ==
  /\ pc = "simulate"
  /\ \E w \in Simulate(Node(arena, leaf).state) :
       IF w = Unwrapped
       THEN /\ pc' = "panicked"
            /\ panic' = "called Option::unwrap() on a None value"
            /\ UNCHANGED winner
       ELSE /\ pc' = "backpropagate"
            /\ winner' = w
            /\ UNCHANGED panic
  /\ rollouts' = rollouts + 1
  /\ UNCHANGED <<reversi, rollout>>
  /\ UNCHANGED <<game, arena, round, leaf, result>>

\* tree.backpropagate(leaf, winner, round); round += 1
Backpropagate ==
  /\ pc = "backpropagate"
  /\ arena' = Backprop(arena, leaf, winner, round)
  /\ round' = round + 1
  /\ pc' = "loop"
  /\ UNCHANGED <<reversi, rollout>>
  /\ UNCHANGED <<game, leaf, winner, result, panic, rollouts>>

\* The clock has run out: find and return the most simulated root child.
\* root.children[0] panics when the root has no children.
Finish ==
  /\ pc = "loop"
  /\ IF Node(arena, root).children = <<>>
     THEN /\ pc' = "panicked"
          /\ panic' = "index out of bounds: the len is 0 but the index is 0"
          /\ UNCHANGED result
     ELSE LET turn == Node(arena, FindBest(arena)).action
          IN  IF turn # None
              THEN /\ pc' = "done"
                   /\ result' = turn
                   /\ UNCHANGED panic
              ELSE /\ pc' = "panicked"
                   /\ panic' = "Error: could not find most simulated node."
                   /\ UNCHANGED result
  /\ UNCHANGED <<reversi, rollout>>
  /\ UNCHANGED <<game, arena, round, leaf, winner, rollouts>>

Next ==
  \/ ExpandRoot
  \/ ReturnOnly
  \/ Select
  \/ ExpandLeaf
  \/ KeepLeaf
  \/ SimulateLeaf
  \/ Backpropagate
  \/ Finish

Spec == Init /\ [][Next]_vars

(***************************************************************************)
(* A Reversi game played from Board::new.                                  *)
(***************************************************************************)
\* Positions play() is tried on: the board and one position off it.
Probes == (Coords \X Coords) \cup {<<BOARDSIZE, BOARDSIZE>>}

InitReversi ==
  /\ board = NewBoard
  /\ plays = 0
  /\ game = "e0"
  /\ arena = NewTree(game)
  /\ round = 0
  /\ leaf = root
  /\ winner = None
  /\ pc = "reversi"
  /\ result = None
  /\ panic = None
  /\ rollouts = 0
  /\ playout = game
  /\ applied = <<>>

\* game.play(turn), for any turn of the player to move: the turns of
\* game.turns() and the turns that are not legal, which change nothing.
PlayTurn ==
  /\ \E pos \in Probes :
       LET played == BoardPlay(board, NewTurn(board.player, pos))
       IN  /\ board' = played.board
           /\ plays' = IF played.ok THEN plays + 1 ELSE plays
  /\ UNCHANGED <<decision, rollout>>

NextReversi == PlayTurn

SpecReversi == InitReversi /\ [][NextReversi]_vars

(***************************************************************************)
(* One call of Node::simulate, a step per iteration of its while loop, on  *)
(* the snapshot of any state of the table.                                 *)
(***************************************************************************)
InitRollout ==
  /\ game \in DOMAIN Games
  /\ playout = game
  /\ applied = <<>>
  /\ arena = NewTree(game)
  /\ round = 0
  /\ leaf = root
  /\ winner = None
  /\ pc = "rollout"
  /\ result = None
  /\ panic = None
  /\ rollouts = 0
  /\ board = NewBoard
  /\ plays = 0

\* while !state.over(): state.turns().choose(..).unwrap(), state.play(..)
RolloutStep ==
  /\ pc = "rollout"
  /\ ~Over(playout)
  /\ IF Turns(playout) = <<>>
     THEN /\ pc' = "panicked"
          /\ panic' = "called Option::unwrap() on a None value"
          /\ UNCHANGED rollout
     ELSE /\ \E i \in 1..Len(Turns(playout)) :
               /\ playout' = Play(playout, Turns(playout)[i])
               /\ applied' = Append(applied,
                               [on |-> playout, turn |-> Turns(playout)[i]])
          /\ UNCHANGED <<pc, panic>>
  /\ UNCHANGED reversi
  /\ UNCHANGED <<game, arena, round, leaf, winner, result, rollouts>>

\* The loop has ended: state.winner()
RolloutReturn ==
  /\ pc = "rollout"
  /\ Over(playout)
  /\ winner' = Winner(playout)
  /\ pc' = "returned"
  /\ UNCHANGED <<reversi, rollout>>
  /\ UNCHANGED <<game, arena, round, leaf, result, panic, rollouts>>

NextRollout ==
  \/ RolloutStep
  \/ RolloutReturn

SpecRollout == InitRollout /\ [][NextRollout]_vars

(***************************************************************************)
(* Properties.                                                             *)
(***************************************************************************)
Indices(a) == 0..(Len(a) - 1)

Children(a, n) == {Node(a, n).children[i] : i \in 1..Len(Node(a, n).children)}

RootKids == Node(arena, root).children

RECURSIVE SumSims(_, _, _)
SumSims(a, kids, i) ==
  IF i > Len(kids) THEN 0 ELSE Node(a, kids[i]).sims + SumSims(a, kids, i + 1)

\* `turn` played in `state` leads only to games `who` wins.
LeadsTo(state, turn, who) == Simulate(Play(state, turn)) = {who}

Opponent(p) == IF p = "P1" THEN "P2" ELSE "P1"

TurnSet(state) == {Turns(state)[i] : i \in 1..Len(Turns(state))}

\* Two legal turns: one leads to a win of the mover, the other to a loss.
ScenarioA(state) ==
  /\ Len(Turns(state)) = 2
  /\ \E x, y \in TurnSet(state) :
       /\ x # y
       /\ LeadsTo(state, x, Player(state))
       /\ LeadsTo(state, y, Opponent(Player(state)))

WinningTurn(state) ==
  CHOOSE x \in TurnSet(state) : LeadsTo(state, x, Player(state))

\* C1: in Scenario A (one turn X leading to a win, one turn Y leading to a
\* loss, in either order), mcts() returns X once the loop has run its full
\* number of iterations.
C1_ScenarioAReturnsWin ==
  (pc = "done" /\ ScenarioA(game) /\ round = MaxRounds)
    => result = WinningTurn(game)

\* The descent of the specification: from each node with children, move to
\* the child of strictly greatest initiative, the earliest one on ties.
RECURSIVE RefBest(_, _, _, _)
RefBest(a, kids, i, best) ==
  IF i > Len(kids) THEN best
  ELSE RefBest(a, kids, i + 1,
         IF Gt(Node(a, kids[i]).initiative, Node(a, best).initiative)
         THEN kids[i] ELSE best)

RECURSIVE RefDescend(_, _)
RefDescend(a, node) ==
  IF Node(a, node).children = <<>> THEN node
  ELSE RefDescend(a, RefBest(a, Node(a, node).children, 2,
                             Node(a, node).children[1]))

RefSelect(a) == RefDescend(a, root)

\* C2: select() returns what the reference descent returns: at every node
\* with children it moves to that node's own child of strictly greatest
\* initiative (earliest on ties) and stops at the first childless node.
C2_SelectIsReferenceDescent ==
  pc = "selected" => leaf = RefSelect(arena)

\* C3: no node has a child simulated twice or more while another child of
\* the same node has never been simulated; and after as many iterations as
\* the root has children, every root child has been simulated.
C3_EveryChildVisitedFirst ==
  /\ \A n \in Indices(arena) : \A c, d \in Children(arena, n) :
       ~(Node(arena, c).sims >= 2 /\ Node(arena, d).sims = 0)
  /\ (pc = "loop" /\ round >= Len(RootKids))
       => \A c \in Children(arena, root) : Node(arena, c).sims >= 1

\* C4: with two or more root children, mcts() returns the action of the
\* root child with the greatest sims, the earliest one in the root's child
\* list when several share it.
C4_RobustChild ==
  (pc = "done" /\ Len(RootKids) >= 2)
    => \E i \in 1..Len(RootKids) :
         /\ result = Node(arena, RootKids[i]).action
         /\ \A j \in 1..Len(RootKids) :
              Node(arena, RootKids[j]).sims <= Node(arena, RootKids[i]).sims
         /\ \A j \in 1..(i - 1) :
              Node(arena, RootKids[j]).sims < Node(arena, RootKids[i]).sims

\* C4 witness: a decision over four root children, returned after several
\* simulations.
C4_Witness ==
  pc = "done" /\ Len(RootKids) = 4 /\ round >= 5 /\ result = "a"

\* C5: mcts() on a state that is over ends in the signalled error of the
\* final selection (the root has no children), not in the panic of an
\* unchecked access, and never returns a turn.
C5_TerminalSignalsInvariantError ==
  (Over(game) /\ pc \in {"done", "panicked"})
    => /\ pc = "panicked"
       /\ result = None
       /\ panic = "Error: could not find most simulated node."

\* C6: when the root has exactly one child, mcts() returns that child's
\* action, and from the root expansion to the return nothing is selected,
\* simulated or backpropagated: every sims is still 0 at the return.
C6_FastPath ==
  /\ [](( pc = "done" /\ Len(RootKids) = 1)
          => /\ result = Node(arena, RootKids[1]).action
             /\ rollouts = 0
             /\ round = 0
             /\ \A n \in Indices(arena) :
                  Node(arena, n).sims = 0 /\ Node(arena, n).wins = 0)
  /\ [][(pc = "expand_root" /\ Len(Node(arena', root).children) = 1)
          => (pc' = "only" /\ rollouts' = 0)]_vars
  /\ [][pc = "only" => (pc' = "done" /\ arena' = arena /\ rollouts' = 0)]_vars

\* C6 witness: the single turn of a one-turn state has been returned.
C6_Witness ==
  pc = "done" /\ Len(RootKids) = 1 /\ result = Turns(game)[1]

\* C7: with two or more root children, after every completed iteration the
\* sims of the root's children add up to the number of iterations completed
\* (round); the sum is 0 when the single-child return was taken.
C7_RootVisitSum ==
  /\ (pc \in {"loop", "done"} /\ Len(RootKids) >= 2)
       => SumSims(arena, RootKids, 1) = round
  /\ (pc = "done" /\ Len(RootKids) = 1)
       => SumSims(arena, RootKids, 1) = 0

\* C7 witness: iterations completed after a grandchild of the root exists.
C7_Witness ==
  /\ pc = "loop"
  /\ round >= 6
  /\ Len(RootKids) >= 2
  /\ \E n \in Indices(arena) :
       Node(arena, n).parent # root /\ Node(arena, n).sims >= 1

\* C8: every node of the arena has wins <= sims.
C8_WinsAtMostSims ==
  \A n \in Indices(arena) : Node(arena, n).wins <= Node(arena, n).sims

\* C8 witness: a node that was credited a win, and one that was simulated
\* without being credited.
C8_Witness ==
  /\ \E n \in Indices(arena) : Node(arena, n).wins >= 2
  /\ \E n \in Indices(arena) :
       Node(arena, n).sims >= 2 /\ Node(arena, n).wins < Node(arena, n).sims

\* The nodes of the subtree hanging from n.
RECURSIVE Subtree(_, _)
Subtree(a, n) == {n} \cup UNION {Subtree(a, c) : c \in Children(a, n)}

\* n lies on the way from lf up to the root, the root excluded.
OnPath(a, n, lf) == n # root /\ lf \in Subtree(a, n)

\* C9: backpropagate adds exactly 1 to sims on exactly the nodes from the
\* leaf up to, but excluding, the root, and changes no other node; the
\* root keeps sims = 0, wins = 0 and initiative = +infinity throughout.
C9_BackpropagateFrame ==
  /\ [](/\ Node(arena, root).sims = 0
        /\ Node(arena, root).wins = 0
        /\ Node(arena, root).initiative = INFINITY)
  /\ [][pc = "backpropagate"
          => /\ Len(arena') = Len(arena)
             /\ \A n \in Indices(arena) :
                  IF OnPath(arena, n, leaf)
                  THEN /\ Node(arena', n).sims = Node(arena, n).sims + 1
                       /\ Node(arena', n).wins \in
                            {Node(arena, n).wins, Node(arena, n).wins + 1}
                       /\ [Node(arena', n) EXCEPT
                             !.sims = 0, !.wins = 0, !.initiative = NaN]
                          = [Node(arena, n) EXCEPT
                               !.sims = 0, !.wins = 0, !.initiative = NaN]
                  ELSE Node(arena', n) = Node(arena, n)]_vars

\* C9 witness: a backpropagation from a grandchild of the root is done.
C9_Witness ==
  /\ pc = "loop"
  /\ round >= 1
  /\ leaf # root
  /\ Node(arena, leaf).parent # root
  /\ Node(arena, leaf).sims >= 1

C12_StateIsolation ==
  /\ [](Len(arena) >= 1 => Node(arena, root).state = game)
  /\ [][/\ game' = game
        /\ Len(arena') >= Len(arena)
        /\ \A n \in Indices(arena) :
             Node(arena', n).state = Node(arena, n).state]_vars

\* C12 witness: a non-root node has been expanded, and rollouts were run
\* from its children.
C12_Witness ==
  /\ pc = "loop"
  /\ \E n \in Indices(arena) :
       /\ n # root
       /\ Node(arena, n).children # <<>>
       /\ \E c \in Children(arena, n) : Node(arena, c).sims >= 1

\* C16: backpropagate adds 1 to wins of a node on the path exactly when the
\* player to move in that node's own state is the winner; with no winner
\* (a tie) no wins changes.
C16_WinCrediting ==
  [][pc = "backpropagate"
       => /\ \A n \in Indices(arena) :
               OnPath(arena, n, leaf)
                 => Node(arena', n).wins
                      = Node(arena, n).wins
                        + (IF Player(Node(arena, n).state) = winner THEN 1 ELSE 0)
          /\ winner = None
               => \A n \in Indices(arena) :
                    Node(arena', n).wins = Node(arena, n).wins]_vars

\* C16 witness: a rollout won by the player to move in the leaf, whose
\* parent has the other player to move, has been backpropagated.
C16_Witness ==
  /\ pc = "loop"
  /\ round >= 1
  /\ leaf # root
  /\ winner = Player(Node(arena, leaf).state)
  /\ Node(arena, leaf).wins >= 1
  /\ Player(Node(arena, Node(arena, leaf).parent).state) # winner

\* The step expands node idx.
Expanding(idx) ==
  \/ pc = "expand_root" /\ idx = root
  \/ pc = "selected" /\ idx = leaf /\ Node(arena, leaf).sims > THRESHOLD

\* C17: expand(idx) appends one node per legal turn of the node's state, in
\* order: the i-th has idx = the arena length before it is appended, parent
\* = idx, that turn as action, the state after that turn, wins = sims = 0
\* and initiative = +infinity, and its index is appended to the parent's
\* children; with no legal turn the arena is left as it was.
C17_ExpandAppends ==
  [][\A idx \in Indices(arena) :
       Expanding(idx)
         => LET ts   == Turns(Node(arena, idx).state)
                base == Len(arena)
            IN  /\ Len(arena') = base + Len(ts)
                /\ \A i \in 1..Len(ts) :
                     Node(arena', base + i - 1)
                       = [ idx |-> base + i - 1, parent |-> idx,
                           children |-> <<>>,
                           state |-> Play(Node(arena, idx).state, ts[i]),
                           action |-> ts[i],
                           wins |-> 0, sims |-> 0, initiative |-> INFINITY ]
                /\ Node(arena', idx)
                     = [Node(arena, idx) EXCEPT
                          !.children = @ \o [i \in 1..Len(ts) |-> base + i - 1]]
                /\ \A n \in Indices(arena) :
                     n # idx => Node(arena', n) = Node(arena, n)
                /\ ts = <<>> => arena' = arena]_vars

\* C17 witness: a non-root node with three legal turns has been expanded.
C17_Witness ==
  /\ pc = "simulate"
  /\ \E n \in Indices(arena) :
       /\ n # root
       /\ Len(Node(arena, n).children) = 3
       /\ \A c \in Children(arena, n) : Node(arena, c).sims = 0

\* C18: a non-root node is expanded only in an iteration in which select()
\* returned it with sims > 3, so every non-root node with a child has
\* sims = 4 + (the sum of its children's sims).
C18_ExpansionThreshold ==
  /\ [](\A n \in Indices(arena) :
          (n # root /\ Node(arena, n).children # <<>>)
            => Node(arena, n).sims
                 = 4 + SumSims(arena, Node(arena, n).children, 1))
  /\ [][(pc # "expand_root" /\ Len(arena') > Len(arena))
          => /\ pc = "selected"
             /\ leaf = SelectLeaf(arena)
             /\ Node(arena, leaf).sims > 3
             /\ \A n \in Len(arena)..(Len(arena') - 1) :
                  Node(arena', n).parent = leaf]_vars

\* C18 witness: a non-root node with children, simulated more than four
\* times.
C18_Witness ==
  \E n \in Indices(arena) :
    /\ n # root
    /\ Node(arena, n).children # <<>>
    /\ Node(arena, n).sims >= 6

\* C19: when the selected leaf has sims > 3, the node simulated and
\* backpropagated from is one of the children expansion just created, if
\* it created any, and the selected leaf otherwise; when sims <= 3 it is
\* the selected leaf and the arena does not grow.
C19_SimulatedNode ==
  /\ [][pc = "selected"
          => IF Node(arena, leaf).sims > 3
             THEN IF Turns(Node(arena, leaf).state) # <<>>
                  THEN /\ leaf' \in Len(arena)..(Len(arena') - 1)
                       /\ Node(arena', leaf').parent = leaf
                  ELSE leaf' = leaf /\ arena' = arena
             ELSE leaf' = leaf /\ arena' = arena]_vars
  /\ [][(pc = "simulate" \/ pc = "backpropagate") => leaf' = leaf]_vars

\* C19 witness: the child picked after an expansion is the last of the
\* three just created, not the first.
C19_Witness ==
  /\ pc = "simulate"
  /\ leaf = Len(arena) - 1
  /\ Node(arena, leaf).sims = 0
  /\ Len(Node(arena, Node(arena, leaf).parent).children) = 3
  /\ Node(arena, leaf).parent # root

\* C20: the round passed to backpropagate is a positive integer, so every
\* node with sims >= 1 carries a number as initiative (never NaN), at
\* least wins / sims; round grows by exactly 1 per simulation.
C20_RoundPositive ==
  /\ pc = "backpropagate" => round >= 1
  /\ \A n \in Indices(arena) :
       Node(arena, n).sims >= 1
         => /\ Node(arena, n).initiative.k = "num"
            /\ Node(arena, n).initiative.v
                 >= Node(arena, n).wins * (Unit \div Node(arena, n).sims)

\* The eight directions of the rules of Reversi.
RuleDirections == {d \in {-1, 0, 1} \X {-1, 0, 1} : d # <<0, 0>>}

\* From turn.pos in direction d: n >= 1 pieces of the opponent in a row,
\* then at once a piece of turn.player.
Brackets(b, turn, d, n) ==
  /\ \A i \in 1..n : Get(b, Step(turn.pos, d, i)) = OpponentOf(turn.player)
  /\ Get(b, Step(turn.pos, d, n + 1)) = turn.player

\* Legality by the rules: on the board, empty, and bracketing in some
\* direction.
RuleLegal(b, turn) ==
  /\ turn.pos \in Coords \X Coords
  /\ b.squares[turn.pos[1]][turn.pos[2]] = Empty
  /\ \E d \in RuleDirections : \E n \in 1..BOARDSIZE : Brackets(b, turn, d, n)

\* The opponent's pieces turn brackets.
Bracketed(b, turn) ==
  {sq \in Coords \X Coords :
     \E d \in RuleDirections : \E n \in 1..BOARDSIZE :
       /\ Brackets(b, turn, d, n)
       /\ \E j \in 1..n : sq = Step(turn.pos, d, j)}

\* pos comes before qos in the order "by column, then by row".
Before(pos, qos) ==
  pos[2] < qos[2] \/ (pos[2] = qos[2] /\ pos[1] < qos[1])

\* C13: is_legal(turn) is true exactly when the position is on the board,
\* the square is empty and, in one of the eight directions, one or more
\* pieces of the opponent in a row from the position are followed at once
\* by a piece of turn.player (no empty square in between); turns() is
\* exactly the legal turns of the mover, by column and then row.
C13_Legality ==
  /\ \A player \in {Black, White} : \A pos \in Probes :
       IsLegal(board, NewTurn(player, pos))
         <=> RuleLegal(board, NewTurn(player, pos))
  /\ LET ts == BoardTurns(board)
     IN  /\ \A k \in 1..Len(ts) :
               ts[k].player = board.player /\ RuleLegal(board, ts[k])
         /\ \A pos \in Coords \X Coords :
               RuleLegal(board, NewTurn(board.player, pos))
                 => \E k \in 1..Len(ts) : ts[k].pos = pos
         /\ \A k \in 1..(Len(ts) - 1) : Before(ts[k].pos, ts[k + 1].pos)

\* C14: a play that returns true puts a piece of turn.player on turn.pos
\* and flips exactly the opponent's pieces that lie in a row between
\* turn.pos and a piece turn.player already had, every other square staying
\* as it was; a turn that is not legal returns false and changes neither
\* the squares nor the player to move.
C14_Play ==
  \A pos \in Probes :
    LET turn   == NewTurn(board.player, pos)
        played == BoardPlay(board, turn)
    IN  IF played.ok
        THEN \A sq \in Coords \X Coords :
               played.board.squares[sq[1]][sq[2]]
                 = IF sq = pos \/ sq \in Bracketed(board, turn)
                   THEN turn.player
                   ELSE board.squares[sq[1]][sq[2]]
        ELSE played.board = board

\* The squares of the board with a piece on them.
Occupied(b) == {pos \in Coords \X Coords : b.squares[pos[1]][pos[2]] # Empty}

\* C15: a game played from the initial board with turns of turns() is over
\* after at most BOARDSIZE * BOARDSIZE - 4 plays: every successful play
\* turns exactly one empty square into a piece and removes no piece, and
\* while the game is not over turns() is not empty.
C15_Termination ==
  /\ [](/\ plays <= BOARDSIZE * BOARDSIZE - 4
        /\ Cardinality(Occupied(board)) = 4 + plays
        /\ plays = BOARDSIZE * BOARDSIZE - 4 => BoardOver(board)
        /\ ~BoardOver(board) => BoardTurns(board) # <<>>
        /\ BoardOver(board) => BoardTurns(board) = <<>>)
  /\ [][plays' = plays + 1
          => /\ Occupied(board) \subseteq Occupied(board')
             /\ Cardinality(Occupied(board') \ Occupied(board)) = 1]_vars

\* C15 witness: a game that is over with the board full, after
\* BOARDSIZE * BOARDSIZE - 4 plays.
C15_Witness ==
  /\ pc = "reversi"
  /\ BoardOver(board)
  /\ plays = BOARDSIZE * BOARDSIZE - 4

\* The states the turns of `applied` lead through, from the snapshot on:
\* each turn is played on the state the one before it led to.
Chained ==
  \A k \in 1..Len(applied) :
    applied[k].on = IF k = 1 THEN game
                    ELSE Play(applied[k - 1].on, applied[k - 1].turn)

\* C21: simulate() from any snapshot returns; every turn it plays is one
\* of turns() of the state it is played on; the value returned is winner()
\* of a state that is over, reached by those turns (of the snapshot itself
\* when that is over); and it never fails at a state that is not over and
\* has no turn.
C21_Rollout ==
  /\ pc # "panicked"
  /\ Chained
  /\ \A k \in 1..Len(applied) : applied[k].turn \in TurnSet(applied[k].on)
  /\ pc = "returned"
       => /\ Over(playout)
          /\ winner = Winner(playout)
          /\ playout = IF applied = <<>> THEN game
                       ELSE Play(applied[Len(applied)].on,
                                 applied[Len(applied)].turn)

\* The number of edges from the root down to node n.
RECURSIVE DepthOf(_, _)
DepthOf(a, n) == IF n = root THEN 0 ELSE 1 + DepthOf(a, Node(a, n).parent)

\* The depth of the tree: the greatest depth of a node.
TreeDepth(a) ==
  CHOOSE d \in 0..Len(a) :
    /\ \E n \in Indices(a) : DepthOf(a, n) = d
    /\ \A n \in Indices(a) : DepthOf(a, n) <= d

\* C22: select() ends after at most as many iterations of its loop as the
\* tree is deep, returns the index of a node without children, leaves the
\* arena as it was, and returns the root only when the root has no
\* children.
C22_SelectTerminates ==
  /\ [](pc = "loop" => DescendSteps(arena, root) <= TreeDepth(arena))
  /\ [][pc = "loop" /\ pc' = "selected"
          => /\ arena' = arena
             /\ leaf' \in Indices(arena)
             /\ Node(arena, leaf').children = <<>>
             /\ leaf' = root => Node(arena, root).children = <<>>]_vars

\* C22 witness: select() has returned a node two levels below the root,
\* after one iteration of its loop.
C22_Witness ==
  /\ pc = "selected"
  /\ leaf # root
  /\ Node(arena, leaf).parent # root
  /\ DescendSteps(arena, root) >= 1
  /\ TreeDepth(arena) >= 2

\* C23: in every position reached from the initial board by play() of
\* turns of turns(), the game is over or the player to move has a turn;
\* after a successful play the move is the opponent's exactly when the
\* opponent has a turn, and otherwise stays with the player who played.
C23_MoverHasTurn ==
  /\ [](BoardOver(board) \/ HasTurn(board, board.player))
  /\ [](HasTurn(board, board.player) <=> BoardTurns(board) # <<>>)
  /\ [][plays' = plays + 1
          => board'.player =
               IF HasTurn(board', OpponentOf(board.player))
               THEN OpponentOf(board.player)
               ELSE board.player]_vars

\* C23 witness: a game that is not over in which the opponent of the
\* player to move has no turn: the move has stayed with the player who
\* played last.
C23_Witness ==
  /\ pc = "reversi"
  /\ plays > 0
  /\ ~BoardOver(board)
  /\ ~HasTurn(board, OpponentOf(board.player))

\* The positions of n in the child list of node m.
Occurrences(a, m, n) ==
  {i \in 1..Len(Node(a, m).children) : Node(a, m).children[i] = n}

\* C24: the node at arena position i has index i; the root is index 0 and
\* the only node with action None; every other node has a parent of
\* smaller index, is listed exactly once by its parent and by no other
\* node; the arena never shrinks and a child list changes only by
\* appending, so child lists are strictly increasing.
C24_WellFormed ==
  /\ [](/\ Len(arena) >= 1
        /\ \A n \in Indices(arena) : Node(arena, n).idx = n
        /\ Node(arena, root).action = None
        /\ \A n \in Indices(arena) \ {root} :
             /\ Node(arena, n).action # None
             /\ Node(arena, n).parent \in Indices(arena)
             /\ Node(arena, n).parent < n
             /\ \A m \in Indices(arena) :
                  Cardinality(Occurrences(arena, m, n))
                    = IF m = Node(arena, n).parent THEN 1 ELSE 0
        /\ \A m \in Indices(arena) :
             LET kids == Node(arena, m).children
             IN  /\ \A i \in 1..Len(kids) : kids[i] \in Indices(arena)
                 /\ \A i \in 1..(Len(kids) - 1) : kids[i] < kids[i + 1])
  /\ [][/\ Len(arena') >= Len(arena)
        /\ \A m \in Indices(arena) :
             LET kids == Node(arena, m).children
             IN  /\ Len(Node(arena', m).children) >= Len(kids)
                 /\ SubSeq(Node(arena', m).children, 1, Len(kids)) = kids]_vars

\* C24 witness: a tree with the root and two more nodes expanded, one of
\* them below the other.
C24_Witness ==
  \E m, n \in Indices(arena) \ {root} :
    /\ Node(arena, m).children # <<>>
    /\ Node(arena, n).children # <<>>
    /\ Node(arena, n).parent = m
    /\ Node(arena, m).sims >= 1

\* C25: expand is only applied to a node without children, so every node
\* has no child or one child per turn of turns() of its state, the i-th
\* child made by the i-th turn; expanding a node whose state has no turn
\* leaves it without children, however often it is done.
C25_ExpandedOnce ==
  /\ [](\A n \in Indices(arena) :
          LET kids == Node(arena, n).children
              ts   == Turns(Node(arena, n).state)
          IN  \/ kids = <<>>
              \/ /\ Len(kids) = Len(ts)
                 /\ \A i \in 1..Len(kids) :
                      /\ Node(arena, kids[i]).action = ts[i]
                      /\ Node(arena, kids[i]).state
                           = Play(Node(arena, n).state, ts[i])
                 /\ \A i, j \in 1..Len(kids) : i # j => kids[i] # kids[j])
  /\ [][\A idx \in Indices(arena) :
         Expanding(idx)
           => /\ Node(arena, idx).children = <<>>
              /\ Turns(Node(arena, idx).state) = <<>>
                   => /\ arena' = arena
                      /\ Node(arena', idx).children = <<>>]_vars

\* C25 witness: a root child whose state has no turn has been selected with
\* sims = 5, so expanded a second time, and has no children; the root has
\* one child per turn.
C25_Witness ==
  /\ pc = "simulate"
  /\ leaf # root
  /\ Node(arena, leaf).sims >= 5
  /\ Turns(Node(arena, leaf).state) = <<>>
  /\ Node(arena, leaf).children = <<>>
  /\ Len(RootKids) = Len(Turns(game))
  /\ Len(RootKids) >= 2

====
